---- MODULE Spec2Model ----
(***************************************************************************)
(* django-ipam, api/generics.py: the virtual host sequence of a subnet     *)
(* (HostsSet) and the address-keyed pagination built on it                 *)
(* (HostsListPagination).                                                  *)
(*                                                                         *)
(* Addresses are integers of a fixed width; their text is a sequence of    *)
(* groups (4 for IPv4, 8 for IPv6), each group a number below GroupBase.   *)
(* The group width is scaled down (GroupBits bits instead of 8 and 16) so  *)
(* that whole subnets can be enumerated; the address family is kept as in  *)
(* the code, by max_prefixlen (32 or 128).                                 *)
(*                                                                         *)
(* Python's None is the empty sequence <<>>, a present value x is <<x>>.   *)
(* A call's outcome is a record [exc, val]: exc = "None" when it returned  *)
(* val, otherwise the name of the exception it raised.                     *)
(***************************************************************************)
EXTENDS Integers, Sequences, FiniteSets, TLC

\* Bits of one textual group of an address.
GroupBits == 1
\* Largest number of host bits of a modelled subnet.
MaxHostBits == 3
\* Largest index, slice start and slice stop handed to a HostsSet.
MaxArg == 3
\* Longest chain of slices taken from the full-subnet sequence.
MaxDepth == 2
\* Largest page limit of the paginator (HostsListPagination.limit, 256 in the code).
MaxLimit == 3

VARIABLES
    subnet,     \* the Subnet row: network_address, broadcast_address, max_prefixlen
    used_set,   \* subnet.ipaddress_set: the texts of the allocated addresses
    qs,         \* the HostsSet at hand: [start, stop]
    depth,      \* slices taken to reach qs from HostsSet(subnet)
    last,       \* the last call made on a HostsSet: [op, self, arg, out]
    limit,      \* HostsListPagination.limit
    request,    \* the last request's query parameter 'start': <<>> or <<text>>
    response,   \* the last response: [exc, next, previous, results, count, offset]
    walk        \* the forward traversal under way: [active, items, requests]

vars == <<subnet, used_set, qs, depth, last, limit, request, response, walk>>

----------------------------------------------------------------------------
(* Values *)

None == <<>>
Some(x) == <<x>>
Opt(S) == {None} \cup {Some(x) : x \in S}

Ok(v) == [exc |-> "None", val |-> v]
Raise(e) == [exc |-> e, val |-> None]

Min(a, b) == IF a <= b THEN a ELSE b

RECURSIVE Pow(_, _)
Pow(b, n) == IF n = 0 THEN 1 ELSE b * Pow(b, n - 1)

----------------------------------------------------------------------------
(* The address classes of the ipaddress library, as the code uses them:    *)
(* subnet.subnet._address_class(int), _address_class(str), str(address),   *)
(* int(address).                                                           *)

Groups(max_prefixlen) == IF max_prefixlen = 32 THEN 4 ELSE 8
GroupBase == Pow(2, GroupBits)
AddrBits(max_prefixlen) == Groups(max_prefixlen) * GroupBits
AddrSpace(max_prefixlen) == Pow(2, AddrBits(max_prefixlen))

\* str(address): the groups of the integer, most significant first.
str(max_prefixlen, n) ==
    [g \in 1..Groups(max_prefixlen) |->
        (n \div Pow(GroupBase, Groups(max_prefixlen) - g)) % GroupBase]

\* int(address) of a well-formed text.
RECURSIVE GroupsValue(_, _)
GroupsValue(text, k) ==
    IF k = 0 THEN 0 ELSE GroupsValue(text, k - 1) * GroupBase + text[k]

\* _address_class(int): AddressValueError (a ValueError) outside the width.
address_of_int(max_prefixlen, n) ==
    IF n < 0 \/ n >= AddrSpace(max_prefixlen)
    THEN Raise("ValueError")
    ELSE Ok(n)

\* _address_class(str): AddressValueError (a ValueError) unless the text has
\* the family's number of groups, each within the group's range.
address_of_str(max_prefixlen, text) ==
    IF Len(text) # Groups(max_prefixlen)
       \/ \E g \in 1..Len(text) : text[g] < 0 \/ text[g] >= GroupBase
    THEN Raise("ValueError")
    ELSE Ok(GroupsValue(text, Len(text)))

----------------------------------------------------------------------------
(* HostsSet *)

\* HostsSet.__init__(subnet, start=0, stop=None); subnet, network and
\* used_set are those of the one subnet of the run.
HostsSet(start, stop) == [start |-> start, stop |-> stop]

network == subnet.network_address

\* count without the IPv4 branch: the broadcast address counted as a host.
count_broadcast_counted(self) ==
    IF self.stop # None
    THEN self.stop[1] - self.start
    ELSE subnet.broadcast_address - network

\* HostsSet.count
count(self) ==
    IF self.stop # None
    THEN self.stop[1] - self.start
    ELSE IF subnet.max_prefixlen = 32
         THEN subnet.broadcast_address - network - 1
         ELSE subnet.broadcast_address - network

\* The slice taken relative to the subnet instead of to self: self.start
\* is not added.
getitem_slice_drifting(self, start, stop) ==
    LET start1 == IF start = None THEN 0 ELSE start[1]
        stop1 == IF stop = None THEN count(self) ELSE Min(stop[1], count(self))
    IN  HostsSet(start1, Some(stop1))

\* The slice without the clamp of stop to count().
getitem_slice_unclamped(self, start, stop) ==
    LET start1 == IF start = None THEN 0 ELSE start[1]
        stop1 == IF stop = None THEN count(self) ELSE stop[1]
    IN  HostsSet(self.start + start1, Some(self.start + stop1))

\* HostsSet.__getitem__ with a slice: start and stop are None or <<int>>.
getitem_slice(self, start, stop) ==
    LET start1 == IF start = None THEN 0 ELSE start[1]
        stop1 == IF stop = None THEN count(self) ELSE Min(stop[1], count(self))
    IN  HostsSet(self.start + start1, Some(self.start + stop1))

\* HostsSet.__getitem__ with an integer: HostsResponse(address, used).
getitem(self, i) ==
    IF i >= count(self)
    THEN Raise("IndexError")
    ELSE LET host == address_of_int(subnet.max_prefixlen, network + 1 + i + self.start)
         IN  IF host.exc # "None"
             THEN host
             ELSE LET text == str(subnet.max_prefixlen, host.val)
                  IN  Ok([address |-> text, used |-> text \in used_set])

\* index_of without the step over the network address.
index_of_network_counted(self, address) ==
    LET parsed == address_of_str(subnet.max_prefixlen, address)
    IN  IF parsed.exc # "None"
        THEN parsed
        ELSE LET index == parsed.val - network
             IN  IF index < 0 \/ index >= count(self)
                 THEN Raise("IndexError")
                 ELSE Ok(index)

\* HostsSet.index_of
index_of(self, address) ==
    LET parsed == address_of_str(subnet.max_prefixlen, address)
    IN  IF parsed.exc # "None"
        THEN parsed
        ELSE LET index == parsed.val - network - 1
             IN  IF index < 0 \/ index >= count(self)
                 THEN Raise("IndexError")
                 ELSE Ok(index)

----------------------------------------------------------------------------
(* Inputs *)

Families == {32, 128}

\* The subnets: every prefix with at most MaxHostBits host bits, at the
\* bottom and at the top of the address space.
Subnets ==
    { [network_address |-> n,
       broadcast_address |-> n + Pow(2, h) - 1,
       max_prefixlen |-> f] :
        <<f, h, n>> \in
            { t \in Families \X (0..MaxHostBits) \X (0..AddrSpace(128) - 1) :
                /\ t[2] <= AddrBits(t[1])
                /\ t[3] \in {0, AddrSpace(t[1]) - Pow(2, t[2])} } }

\* The address texts a caller may hand in: the addresses around the subnet,
\* an address of the other family, the empty text and a text with a group
\* out of range.
OtherFamily(f) == IF f = 32 THEN 128 ELSE 32

Texts(sn) ==
    { str(sn.max_prefixlen, n) :
        n \in { m \in sn.network_address - 1 .. sn.broadcast_address + 1 :
                    0 <= m /\ m < AddrSpace(sn.max_prefixlen) } }
    \cup { str(OtherFamily(sn.max_prefixlen), 1),
           <<>>,
           [g \in 1..Groups(sn.max_prefixlen) |-> GroupBase] }

\* No request served yet.
NoResponse ==
    [exc |-> "NoRequest", next |-> None, previous |-> None, results |-> <<>>,
     count |-> 0, offset |-> 0]
NoWalk == [active |-> FALSE, items |-> <<>>, requests |-> 0]

\* The allocations: none, or the first two addresses after the network's.
UsedSets(sn) ==
    { {}, { str(sn.max_prefixlen, sn.network_address + 1),
            str(sn.max_prefixlen, sn.network_address + 2) } }

----------------------------------------------------------------------------
(* The HostsSet of a subnet and the calls made on it *)

\* The state after the view's get_queryset: qs = HostsSet(subnet).
Setup ==
    /\ subnet \in Subnets
    /\ used_set \in UsedSets(subnet)
    /\ qs = HostsSet(0, None)
    /\ depth = 0
    /\ last = [op |-> "__init__", self |-> HostsSet(0, None), arg |-> <<>>,
               out |-> Ok(HostsSet(0, None))]
    /\ request = None
    /\ response = NoResponse
    /\ walk = NoWalk

Init ==
    /\ Setup
    /\ limit = MaxLimit

\* qs[start:stop]
Slice(start, stop) ==
    /\ depth < MaxDepth
    /\ qs' = getitem_slice(qs, start, stop)
    /\ depth' = depth + 1
    /\ last' = [op |-> "slice", self |-> qs, arg |-> <<start, stop>>,
                out |-> Ok(getitem_slice(qs, start, stop))]
    /\ UNCHANGED <<subnet, used_set, limit, request, response, walk>>

\* qs[i]
GetItem(i) ==
    /\ last' = [op |-> "getitem", self |-> qs, arg |-> <<i>>, out |-> getitem(qs, i)]
    /\ UNCHANGED <<subnet, used_set, qs, depth, limit, request, response, walk>>

\* qs.index_of(address)
IndexOf(address) ==
    /\ last' = [op |-> "index_of", self |-> qs, arg |-> <<address>>,
                out |-> index_of(qs, address)]
    /\ UNCHANGED <<subnet, used_set, qs, depth, limit, request, response, walk>>

\* qs.count()
Count ==
    /\ last' = [op |-> "count", self |-> qs, arg |-> <<>>, out |-> Ok(count(qs))]
    /\ UNCHANGED <<subnet, used_set, qs, depth, limit, request, response, walk>>

Next ==
    \/ \E start \in Opt(0..MaxArg), stop \in Opt(0..MaxArg) : Slice(start, stop)
    \/ \E i \in -MaxArg..MaxArg : GetItem(i)
    \/ \E address \in Texts(subnet) : IndexOf(address)
    \/ Count

Spec == Init /\ [][Next]_vars

----------------------------------------------------------------------------
(* HostsListPagination over HostsSet(subnet), as BaseSubnetHostsView runs it *)

\* list(queryset): len() refuses a negative __len__ with a ValueError, then
\* the items are read by index until IndexError.
RECURSIVE iterate(_, _)
iterate(queryset, i) ==
    LET item == getitem(queryset, i)
    IN  IF item.exc = "IndexError" THEN Ok(<<>>)
        ELSE IF item.exc # "None" THEN item
        ELSE LET rest == iterate(queryset, i + 1)
             IN  IF rest.exc # "None" THEN rest ELSE Ok(<<item.val>> \o rest.val)

list(queryset) ==
    IF count(queryset) < 0 THEN Raise("ValueError") ELSE iterate(queryset, 0)

\* HostsListPagination.get_offset: a missing parameter (KeyError) and a
\* ValueError give 0; any other exception leaves the method.
get_offset(queryset, start_param) ==
    IF start_param = None
    THEN Ok(0)
    ELSE LET index == index_of(queryset, start_param[1])
         IN  IF index.exc = "ValueError" THEN Ok(0) ELSE index

\* replace_query_param(url, 'start', value) and remove_query_param(url,
\* 'start'): a URL is the value of its 'start' parameter.
replace_query_param(value) == [start |-> Some(value)]
remove_query_param == [start |-> None]

\* get_next_link naming the last element of this page, not the first of
\* the next.
get_next_link_last_of_page(queryset, cnt, offset) ==
    IF offset + limit >= cnt
    THEN Ok(None)
    ELSE LET host == getitem(queryset, offset + limit - 1)
         IN  IF host.exc # "None" THEN host
             ELSE Ok(Some(replace_query_param(host.val.address)))

\* HostsListPagination.get_next_link: None, or <<url>>.
get_next_link(queryset, cnt, offset) ==
    IF offset + limit >= cnt
    THEN Ok(None)
    ELSE LET host == getitem(queryset, offset + limit)
         IN  IF host.exc # "None" THEN host
             ELSE Ok(Some(replace_query_param(host.val.address)))

\* get_previous_link keeping the cursor when the previous page is the first.
get_previous_link_keeps_cursor(queryset, offset) ==
    IF offset <= 0
    THEN Ok(None)
    ELSE IF offset - limit < 0
    THEN Ok(Some(remove_query_param))
    ELSE LET host == getitem(queryset, offset - limit)
         IN  IF host.exc # "None" THEN host
             ELSE Ok(Some(replace_query_param(host.val.address)))

\* HostsListPagination.get_previous_link: None, or <<url>>.
get_previous_link(queryset, offset) ==
    IF offset <= 0
    THEN Ok(None)
    ELSE IF offset - limit <= 0
    THEN Ok(Some(remove_query_param))
    ELSE LET host == getitem(queryset, offset - limit)
         IN  IF host.exc # "None" THEN host
             ELSE Ok(Some(replace_query_param(host.val.address)))

Failed(e, cnt, offset) ==
    [exc |-> e, next |-> None, previous |-> None, results |-> <<>>,
     count |-> cnt, offset |-> offset]

\* paginate_queryset, then get_paginated_response, on the view's queryset.
paginate(queryset, start_param) ==
    LET cnt == count(queryset)
        offset == get_offset(queryset, start_param)
    IN  IF offset.exc # "None" THEN Failed(offset.exc, cnt, 0)
        ELSE
        LET page == list(getitem_slice(queryset, Some(offset.val),
                                       Some(offset.val + limit)))
            next == get_next_link(queryset, cnt, offset.val)
            previous == get_previous_link(queryset, offset.val)
        IN  IF page.exc # "None" THEN Failed(page.exc, cnt, offset.val)
            ELSE IF next.exc # "None" THEN Failed(next.exc, cnt, offset.val)
            ELSE IF previous.exc # "None" THEN Failed(previous.exc, cnt, offset.val)
            ELSE [exc |-> "None", next |-> next.val, previous |-> previous.val,
                  results |-> page.val, count |-> cnt, offset |-> offset.val]

\* BaseSubnetHostsView: get_queryset builds HostsSet(subnet) for every request.
hosts_view(start_param) == paginate(HostsSet(0, None), start_param)

InitPage ==
    /\ Setup
    /\ limit \in 1..MaxLimit

\* The view answers GET .../hosts/ with or without ?start=<text>.  A
\* request without the parameter starts a forward traversal; a request that
\* follows the next link of the traversal's last page continues it.
Serve(start_param, forward) ==
    LET r == hosts_view(start_param)
    IN  /\ request' = start_param
        /\ response' = r
        /\ walk' = IF r.exc # "None" THEN NoWalk
                    ELSE IF start_param = None
                    THEN [active |-> TRUE, items |-> r.results, requests |-> 1]
                    ELSE IF forward /\ walk.active
                    THEN [active |-> TRUE, items |-> walk.items \o r.results,
                          requests |-> walk.requests + 1]
                    ELSE NoWalk
        /\ UNCHANGED <<subnet, used_set, qs, depth, last, limit>>

\* GET with any cursor, or none.
Get(start_param) == Serve(start_param, FALSE)

\* GET the URL of the last response's next link.
FollowNext ==
    /\ response.exc = "None"
    /\ response.next # None
    /\ Serve(response.next[1].start, TRUE)

\* GET the URL of the last response's previous link.
FollowPrevious ==
    /\ response.exc = "None"
    /\ response.previous # None
    /\ Serve(response.previous[1].start, FALSE)

NextPage ==
    \/ \E start_param \in Opt(Texts(subnet)) : Get(start_param)
    \/ FollowNext
    \/ FollowPrevious

SpecPage == InitPage /\ [][NextPage]_vars

----------------------------------------------------------------------------
(* What the specification says of a subnet, stated apart from the code     *)

Full == HostsSet(0, None)

\* Host count: the network address is never a host, the broadcast address
\* is none in IPv4 only.
hostCount ==
    IF subnet.max_prefixlen = 32
    THEN subnet.broadcast_address - subnet.network_address - 1
    ELSE subnet.broadcast_address - subnet.network_address

\* A valid address space: networkAddress < broadcastAddress.
ValidSpace == subnet.network_address < subnet.broadcast_address

\* The element at subnet index i.
HostAt(i) ==
    [address |-> str(subnet.max_prefixlen, subnet.network_address + 1 + i),
     used |-> str(subnet.max_prefixlen, subnet.network_address + 1 + i) \in used_set]

\* The subnet index a text names (addressToInt - networkAddress - 1), or
\* None when the text is no address of the subnet's family.
IndexNamed(text) ==
    LET parsed == address_of_str(subnet.max_prefixlen, text)
    IN  IF parsed.exc # "None" THEN None
        ELSE Some(parsed.val - subnet.network_address - 1)

\* The offset a request's cursor decodes to: 0 without a usable cursor.
DecodedOffset(start_param) ==
    IF start_param = None \/ IndexNamed(start_param[1]) = None
    THEN 0
    ELSE IndexNamed(start_param[1])[1]

\* A cursor that does not parse, or names an index outside [0, hostCount).
BadCursor(text) ==
    \/ IndexNamed(text) = None
    \/ IndexNamed(text)[1] < 0
    \/ IndexNamed(text)[1] >= hostCount

\* Two sequences of the same length with the same element at every index.
SameElements(x, y) ==
    /\ count(x) = count(y)
    /\ \A i \in 0..count(x) - 1 :
        /\ getitem(x, i).exc = getitem(y, i).exc
        /\ getitem(x, i).exc = "None" => getitem(x, i).val = getitem(y, i).val

----------------------------------------------------------------------------
(* Claims *)

\* C1: a request whose cursor does not parse or names an index outside
\* [0, hostCount) is answered without error and exactly as the request
\* without a cursor is: same page, same next link, same previous link.
C1_BadCursorAsNoCursor ==
    (ValidSpace /\ request # None /\ BadCursor(request[1]))
        => /\ response.exc = "None"
           /\ response = hosts_view(None)

\* C2: elementAt(i) with i outside [0, length()), negative i included,
\* signals a fault and returns no element (any exception is taken for the
\* fault here: what refutes the claim is an element that was returned).
C2_OutOfRangeFaults ==
    (last.op = "getitem" /\ (last.arg[1] < 0 \/ last.arg[1] >= count(last.self)))
        => last.out.exc # "None"

\* C3: every sequence reached from the full-subnet sequence by slices with
\* non-negative start and stop satisfies
\* 0 <= rangeStart <= rangeStop <= hostCount, and its length is not negative.
C3_WindowInvariant ==
    ValidSpace =>
        LET rangeStop == IF qs.stop = None THEN hostCount ELSE qs.stop[1]
        IN  /\ 0 <= qs.start
            /\ qs.start <= rangeStop
            /\ rangeStop <= hostCount
            /\ count(qs) >= 0

\* C4: round trip: on the full-subnet sequence, for 0 <= i < hostCount, the
\* address of the element at index i decodes back to i.
C4_RoundTrip ==
    (last.op = "getitem" /\ last.self = Full
        /\ 0 <= last.arg[1] /\ last.arg[1] < hostCount)
        => /\ last.out.exc = "None"
           /\ index_of(last.self, last.out.val.address) = Ok(last.arg[1])

C4_Witness ==
    /\ last.op = "getitem" /\ last.self = Full
    /\ subnet.network_address > 0
    /\ last.arg[1] >= 1 /\ last.arg[1] = hostCount - 1
    /\ last.out.exc = "None"

\* C5: slice composition: for a <= b, c <= d and c <= min(b, length(s)) - a,
\* s.slice(a, b).slice(c, d) has the length and the elements of
\* s.slice(a + c, min(a + d, b)).
C5_SliceComposition ==
    (last.op = "slice" /\ last.arg[1] # None /\ last.arg[2] # None)
        => LET s == last.self
               a == last.arg[1][1]
               b == last.arg[2][1]
           IN  \A c, d \in 0..MaxArg :
                 (a <= b /\ c <= d /\ c <= Min(b, count(s)) - a)
                    => SameElements(
                         getitem_slice(qs, Some(c), Some(d)),
                         getitem_slice(s, Some(a + c), Some(Min(a + d, b))))

C5_Witness ==
    /\ last.op = "slice" /\ last.arg[1] # None /\ last.arg[2] # None
    /\ last.self.start >= 1
    /\ last.arg[1][1] >= 1 /\ last.arg[1][1] <= last.arg[2][1]
    /\ \E c, d \in 0..MaxArg :
        /\ c <= d
        /\ c <= Min(last.arg[2][1], count(last.self)) - last.arg[1][1]
        /\ count(getitem_slice(qs, Some(c), Some(d))) >= 1

\* C6 as stated: the full-subnet sequence counts broadcast - network - 1
\* hosts in IPv4 and broadcast - network in IPv6, so an IPv4 /30 (4
\* addresses) has exactly 1 host and an IPv6 /126 (4 addresses) exactly 3;
\* its element at index 0 is network + 1.
C6_HostCountAsStated ==
    /\ (last.op = "count" /\ last.self = Full)
        => /\ last.out.val = hostCount
           /\ (subnet.broadcast_address - subnet.network_address = 3
                  /\ subnet.max_prefixlen = 32) => last.out.val = 1
           /\ (subnet.broadcast_address - subnet.network_address = 3
                  /\ subnet.max_prefixlen = 128) => last.out.val = 3
    /\ (last.op = "getitem" /\ last.self = Full /\ last.arg[1] = 0 /\ hostCount >= 1)
        => /\ last.out.exc = "None"
           /\ address_of_str(subnet.max_prefixlen, last.out.val.address)
                = Ok(subnet.network_address + 1)

\* C6 amended: as above, but an IPv4 /30 has exactly 2 hosts (network + 1
\* and network + 2), which is what broadcast - network - 1 gives.
C6_HostCount ==
    /\ (last.op = "count" /\ last.self = Full)
        => /\ last.out.val = hostCount
           /\ (subnet.broadcast_address - subnet.network_address = 3
                  /\ subnet.max_prefixlen = 32) => last.out.val = 2
           /\ (subnet.broadcast_address - subnet.network_address = 3
                  /\ subnet.max_prefixlen = 128) => last.out.val = 3
    /\ (last.op = "getitem" /\ last.self = Full /\ last.arg[1] = 0 /\ hostCount >= 1)
        => /\ last.out.exc = "None"
           /\ address_of_str(subnet.max_prefixlen, last.out.val.address)
                = Ok(subnet.network_address + 1)
    /\ (last.op = "getitem" /\ last.self = Full /\ last.arg[1] = 1
          /\ subnet.broadcast_address - subnet.network_address = 3
          /\ subnet.max_prefixlen = 32)
        => /\ last.out.exc = "None"
           /\ address_of_str(subnet.max_prefixlen, last.out.val.address)
                = Ok(subnet.network_address + 2)

C6_Witness ==
    /\ last.op = "count" /\ last.self = Full
    /\ subnet.max_prefixlen = 32
    /\ subnet.broadcast_address - subnet.network_address = 3
    /\ subnet.network_address > 0
    /\ last.out.val = 2

\* C7: a page computed at decoded offset o has a next link iff
\* o + limit < hostCount; the link's cursor is the address of the element at
\* index o + limit and decodes back to o + limit.
C7_NextLink ==
    response.exc = "None"
        => LET o == DecodedOffset(request)
           IN  /\ response.offset = o
               /\ (response.next # None) <=> (o + limit < hostCount)
               /\ response.next # None
                    => /\ response.next[1].start = Some(HostAt(o + limit).address)
                       /\ IndexNamed(response.next[1].start[1]) = Some(o + limit)

C7_Witness ==
    /\ response.exc = "None"
    /\ response.offset >= 1
    /\ response.next # None

\* C8: a page computed at decoded offset o has no previous link iff o <= 0;
\* with 0 < o and o - limit <= 0 the link is the URL without the cursor;
\* otherwise its cursor is the address of the element at index o - limit.
C8_PreviousLink ==
    response.exc = "None"
        => LET o == DecodedOffset(request)
           IN  /\ (response.previous = None) <=> (o <= 0)
               /\ (0 < o /\ o - limit <= 0)
                    => response.previous = Some([start |-> None])
               /\ (0 < o /\ o - limit > 0)
                    => response.previous
                         = Some([start |-> Some(HostAt(o - limit).address)])

C8_Witness ==
    /\ response.exc = "None"
    /\ response.previous # None
    /\ response.previous[1].start # None

\* C9: on a sliced sequence with window [rangeStart, rangeStop), index_of
\* of an address succeeds when the address's subnet index lies inside the
\* window and signals IndexError when it lies outside.
C9_IndexOfWindow ==
    (last.op = "index_of" /\ last.self.stop # None
        /\ IndexNamed(last.arg[1]) # None)
        => LET index == IndexNamed(last.arg[1])[1]
               inside == last.self.start <= index /\ index < last.self.stop[1]
           IN  /\ inside => last.out.exc = "None"
               /\ ~inside => last.out.exc = "IndexError"

\* C10: forward traversal of a subnet with hostCount >= 0: the request
\* without a cursor succeeds; the k-th page of the traversal holds the
\* elements at indices o .. min(o + limit, hostCount) - 1 for
\* o = (k - 1) * limit; the traversal takes no more requests than there are
\* pages; and when the next link is absent the pages together are the
\* elements at indices 0 .. hostCount - 1, in order.
C10_ForwardTraversal ==
    /\ (hostCount >= 0 /\ request = None /\ response.exc # "NoRequest")
        => response.exc = "None" /\ walk.active
    /\ walk.active
        => LET o == (walk.requests - 1) * limit
               size == Min(limit, hostCount - o)
           IN  /\ response.offset = o
               /\ o = DecodedOffset(request)
               /\ o = 0 \/ o < hostCount
               /\ walk.requests = 1 \/ walk.requests * limit < hostCount + limit
               /\ response.results = [k \in 1..size |-> HostAt(o + k - 1)]
               /\ Len(walk.items) = Min(o + limit, hostCount)
               /\ response.next = None
                    => walk.items = [k \in 1..hostCount |-> HostAt(k - 1)]

C10_Witness ==
    /\ walk.active
    /\ walk.requests >= 3
    /\ response.next = None
    /\ Len(response.results) >= 1 /\ Len(response.results) < limit
    /\ Len(walk.items) = hostCount

====
